---- MODULE Spec2Model ----
(***************************************************************************)
(* pcshop-finance-tracker: the role-gated invite function                  *)
(* (supabase/functions/invite/index.ts) and the client-side session /      *)
(* profile resolver (src/lib/session.tsx).                                  *)
(*                                                                         *)
(* The invite handler is modelled one action per segment between two       *)
(* awaits; an external call takes effect when its answer is delivered.     *)
(***************************************************************************)
EXTENDS Integers, Sequences, FiniteSets, TLC

VARIABLES
    env,        \* Deno.env of the deployed function
    profiles,   \* table "profiles": a set of rows
    authUsers,  \* the identity collaborator's users
    inv,        \* the invocations of the handler, by slot
    authSess,   \* the auth client's current session
    session,    \* SessionProvider: useState session
    loading,    \* SessionProvider: useState loading
    profile,    \* SessionProvider: useState profile
    getSessionPending,  \* getSession() has not resolved yet
    effectDep,  \* the session the load effect last ran for
    pending,    \* the profile lookups in flight
    nextObj,    \* the next session object
    route,      \* the screen the router has mounted
    transactions,  \* table "transactions": a set of rows
    bills,      \* table "bills": a set of rows
    savings,    \* tables "savings_goals" and "savings_contributions"
    ui,         \* the mounted screen's useState values
    ops,        \* the mounted screen's requests in flight, by slot
    nextId      \* the next row id the store hands out

invVars == <<env, profiles, authUsers, inv>>

sessVars == <<authSess, session, loading, profile, getSessionPending, effectDep,
              pending, nextObj>>

scrVars == <<route, transactions, bills, savings, ui, ops, nextId>>

vars == <<env, profiles, authUsers, inv, authSess, session, loading, profile,
          getSessionPending, effectDep, pending, nextObj,
          route, transactions, bills, savings, ui, ops, nextId>>

----------------------------------------------------------------------------
(* JavaScript values: strings, with undefined and null as two marked values *)

Undefined == "undefined"

Null == "null"

\* !!v
Truthy(v) == v \notin {Undefined, Null, ""}

\* a ?? b
Coalesce(a, b) == IF a \in {Undefined, Null} THEN b ELSE a

\* a || b
OrElse(a, b) == IF Truthy(a) THEN a ELSE b

----------------------------------------------------------------------------
(* The Authorization header, as a sequence of characters *)

\* headers.get() of a header that is not there
NoHeader == <<"null">>

BearerPrefix == <<"B", "e", "a", "r", "e", "r", " ">>

BearerLen == 7

\* String.prototype.startsWith
StartsWith(s, p) == Len(s) >= Len(p) /\ SubSeq(s, 1, Len(p)) = p

\* String.prototype.slice(n)
Slice(s, n) == SubSeq(s, n + 1, Len(s))

ParseBearerNoSchemeCheck(raw) ==
    LET authHeader == IF raw = NoHeader THEN <<>> ELSE raw
    IN  Slice(authHeader, BearerLen)

\* index.ts 29-30: the token of "Bearer <token>", "" otherwise
ParseBearer(raw) ==
    LET authHeader == IF raw = NoHeader THEN <<>> ELSE raw
    IN  IF StartsWith(authHeader, BearerPrefix)
        THEN Slice(authHeader, BearerLen)
        ELSE <<>>

----------------------------------------------------------------------------
(* The principals and the inputs *)

AdminId == "u_admin"

StaffId == "u_staff"

NewId == "u_new"

Roles == {"viewer", "editor", "admin"}

TokAdmin == <<"a">>

TokStaff == <<"s">>

TokBad == <<"x">>

Headers ==
    { NoHeader,
      <<>>,
      <<"B", "a", "s", "i", "c", " ">> \o TokAdmin,
      <<"b", "e", "a", "r", "e", "r", " ">> \o TokAdmin,
      <<"B", "e", "a", "r", "e", "r">> \o TokAdmin,
      BearerPrefix,
      BearerPrefix \o TokAdmin,
      BearerPrefix \o TokStaff,
      BearerPrefix \o TokBad }

Methods == {"OPTIONS", "POST", "GET"}

Emails == {Undefined, "", "new@shop.com", "staff@shop.com"}

Names == {Undefined, "", "Juan Dela Cruz"}

RoleInputs == {Undefined, Null, "viewer", "editor", "admin", "owner"}

\* a request body: parseable JSON object with its three fields, or not JSON
Bodies ==
    [json : {TRUE}, email : Emails, fullName : Names, role : RoleInputs]
    \cup {[json |-> FALSE, email |-> Undefined, fullName |-> Undefined,
           role |-> Undefined]}

Requests == [method : Methods, header : Headers, body : Bodies]

Envs ==
    { [url |-> "https://proj.supabase.co", key |-> "service-role-secret"],
      [url |-> Undefined, key |-> "service-role-secret"],
      [url |-> "https://proj.supabase.co", key |-> Undefined] }

----------------------------------------------------------------------------
(* The collaborators: what the platform answers *)

NullRow == [id |-> Null, full_name |-> Null, role |-> Null]

\* from("profiles").select(...).eq("id", id)
SelectById(rows, id) == {r \in rows : r.id = id}

\* .maybeSingle(): the row when there is exactly one, null otherwise
MaybeSingle(rows) ==
    IF Cardinality(rows) = 1 THEN CHOOSE r \in rows : TRUE ELSE NullRow

UpsertRowInsertOnly(rows, row) == rows \cup {row}

\* from("profiles").upsert(row): insert, or replace the row of that id
UpsertRow(rows, row) == {r \in rows : r.id # row.id} \cup {row}

\* the principal a token stands for
TokenUser(jwt) ==
    IF jwt = TokAdmin THEN AdminId
    ELSE IF jwt = TokStaff THEN StaffId
    ELSE Undefined

Thrown == {[kind |-> "throw", id |-> Undefined, message |-> m] :
              m \in {"fetch failed", Undefined}}

\* auth.getUser(jwt): the user, an error answer (user null), or an exception
GetUserAnswers(jwt) ==
    (IF TokenUser(jwt) # Undefined
     THEN {[kind |-> "ok", id |-> TokenUser(jwt), message |-> Undefined]}
     ELSE {})
    \cup {[kind |-> "error", id |-> Undefined, message |-> "invalid JWT"]}
    \cup Thrown

\* a table call answers {data, error}; it does not throw
TableAnswers == {"ok", "error"}

UserOfEmail(users, email) == {u \in users : u.email = email}

AlreadyRegistered == "A user with this email address has already been registered"

\* auth.admin.inviteUserByEmail(email): creates the user, re-invites an
\* unconfirmed one, refuses a confirmed one; or fails for another reason
InviteAnswers(users, email) ==
    LET known == UserOfEmail(users, email)
    IN  (IF known = {}
         THEN {[kind |-> "ok", id |-> NewId, message |-> Undefined]}
         ELSE IF \E u \in known : u.confirmed
         THEN {[kind |-> "error", id |-> Undefined, message |-> AlreadyRegistered]}
         ELSE {[kind |-> "ok", id |-> u.id, message |-> Undefined] : u \in known})
        \cup {[kind |-> "ok", id |-> Undefined, message |-> Undefined]}
        \cup {[kind |-> "error", id |-> Undefined,
               message |-> "Error sending invite email"]}
        \cup Thrown

\* the users after the invite was answered
InviteEffect(users, email, answer) ==
    IF answer.kind = "ok" /\ answer.id # Undefined /\ UserOfEmail(users, email) = {}
    THEN users \cup {[email |-> email, id |-> answer.id, confirmed |-> FALSE]}
    ELSE users

----------------------------------------------------------------------------
(* The handler's own decisions *)

NotAdminTrustingEditor(prof) == prof = NullRow \/ prof.role \notin {"admin", "editor"}

\* index.ts 39: !prof || prof.role !== "admin"
NotAdmin(prof) == prof = NullRow \/ prof.role # "admin"

MissingFieldsEmailOnly(body) == ~Truthy(body.email)

ForbiddenUnlessClaimed(me) == NotAdmin(me.prof) /\ me.req.body.role # "admin"

\* index.ts 39-41: the admin gate, taken on the row read from the table
Forbidden(me) == NotAdmin(me.prof)

\* index.ts 45: !email || !fullName
MissingFields(body) == ~Truthy(body.email) \/ ~Truthy(body.fullName)

\* index.ts 62: (role as ...) ?? "viewer"
RoleToWrite(role) == Coalesce(role, "viewer")

ErrorMessageMasked(e) == "Invite failed"

\* index.ts 68: e?.message || "Invite failed"
ErrorMessage(e) == OrElse(e.message, "Invite failed")

\* the message of the exception req.json() throws
NotJson == "Unexpected end of JSON input"

NoRow == [id |-> Undefined, full_name |-> Undefined, role |-> Undefined]

\* index.ts 5-10: the headers every response carries
CorsHeaders ==
    [contentType |-> "application/json",
     allowOrigin |-> "*",
     allowHeaders |-> "authorization, x-client-info, apikey, content-type",
     allowMethods |-> "POST, OPTIONS"]

NoHeaders ==
    [contentType |-> Undefined, allowOrigin |-> Undefined,
     allowHeaders |-> Undefined, allowMethods |-> Undefined]

NoResp == [status |-> 0, text |-> "", error |-> Undefined, ok |-> FALSE,
           user_id |-> Undefined, headers |-> NoHeaders]

ErrorRespEchoingKey(status, error) ==
    [NoResp EXCEPT !.status = status, !.headers = CorsHeaders,
                   !.error = IF status = 500 THEN OrElse(env.key, error) ELSE error]

\* new Response(JSON.stringify({ error }), { status, headers })
ErrorResp(status, error) ==
    [NoResp EXCEPT !.status = status, !.error = error, !.headers = CorsHeaders]

\* index.ts 13: new Response("ok", { headers })
PreflightResp == [NoResp EXCEPT !.status = 200, !.text = "ok", !.headers = CorsHeaders]

\* index.ts 66: new Response(JSON.stringify({ ok: true, user_id: newId }), { headers })
SuccessResp(newId) ==
    [NoResp EXCEPT !.status = 200, !.ok = TRUE, !.user_id = newId,
                   !.headers = CorsHeaders]

NoRequest == [method |-> "", header |-> NoHeader,
              body |-> [json |-> FALSE, email |-> Undefined,
                        fullName |-> Undefined, role |-> Undefined]]

\* an invocation: the handler's locals, and what it did so far
\*   calls   the external calls issued, in order
\*   got     the answers to these calls, in order
\*   stored  the caller's role in the table when it was read
\*   row     the row handed to upsert
Idle == [pc |-> "idle", req |-> NoRequest, jwt |-> <<>>, callerId |-> Undefined,
         prof |-> NullRow, newId |-> Undefined, resp |-> NoResp,
         calls |-> <<>>, got |-> <<>>, stored |-> Undefined, row |-> NoRow]

Return(r, resp) == [r EXCEPT !.pc = "done", !.resp = resp]

\* the answer of the collaborator to the call that was pending
Got(r, kind, message) ==
    [r EXCEPT !.got = Append(@, [kind |-> kind, message |-> message])]

Call(r, pc, name) == [r EXCEPT !.pc = pc, !.calls = Append(@, name)]

----------------------------------------------------------------------------
(* The handler *)

\* the slots of concurrently running invocations
NInv == 2

Invs == 1 .. NInv

\* the slot of a deployment that serves one request at a time
Sequential == {1}

StartConfigCheckedLast(i, r) ==
    /\ inv[i].pc = "idle"
    /\ LET me == [inv[i] EXCEPT !.req = r]
           jwt == ParseBearer(r.header)
       IN  inv' = [inv EXCEPT ![i] =
             IF r.method = "OPTIONS" THEN Return(me, PreflightResp)
             ELSE IF r.method # "POST"
             THEN Return(me, ErrorResp(405, "Method not allowed"))
             ELSE IF jwt = <<>>
             THEN Return(me, ErrorResp(401, "Unauthorized"))
             ELSE IF ~Truthy(env.url) \/ ~Truthy(env.key)
             THEN Return(me, ErrorResp(500, "Server misconfigured"))
             ELSE Call([me EXCEPT !.jwt = jwt], "getUser", "auth.getUser")]
    /\ UNCHANGED <<env, profiles, authUsers>>
    /\ UNCHANGED sessVars
    /\ UNCHANGED scrVars

\* index.ts 12-34: a request arrives; runs up to the first await
Start(i, r) ==
    /\ inv[i].pc = "idle"
    /\ LET me == [inv[i] EXCEPT !.req = r]
           jwt == ParseBearer(r.header)
       IN  inv' = [inv EXCEPT ![i] =
             IF r.method = "OPTIONS" THEN Return(me, PreflightResp)
             ELSE IF r.method # "POST"
             THEN Return(me, ErrorResp(405, "Method not allowed"))
             ELSE IF ~Truthy(env.url) \/ ~Truthy(env.key)
             THEN Return(me, ErrorResp(500, "Server misconfigured"))
             ELSE IF jwt = <<>>
             THEN Return(me, ErrorResp(401, "Unauthorized"))
             ELSE Call([me EXCEPT !.jwt = jwt], "getUser", "auth.getUser")]
    /\ UNCHANGED <<env, profiles, authUsers>>
    /\ UNCHANGED sessVars
    /\ UNCHANGED scrVars

GetUserReturnNoCheck(i, a) ==
    /\ inv[i].pc = "getUser"
    /\ a \in GetUserAnswers(inv[i].jwt)
    /\ LET me == Got(inv[i], a.kind, a.message)
           callerId == IF a.kind = "ok" THEN a.id ELSE Undefined
       IN  inv' = [inv EXCEPT ![i] =
             IF a.kind = "throw" THEN Return(me, ErrorResp(400, ErrorMessage(a)))
             ELSE Call([me EXCEPT !.callerId = callerId], "profile",
                       "profiles.select")]
    /\ UNCHANGED <<env, profiles, authUsers>>
    /\ UNCHANGED sessVars
    /\ UNCHANGED scrVars

GetUserReturnUncaught(i, a) ==
    /\ inv[i].pc = "getUser"
    /\ a \in GetUserAnswers(inv[i].jwt)
    /\ LET me == Got(inv[i], a.kind, a.message)
           callerId == IF a.kind = "ok" THEN a.id ELSE Undefined
       IN  inv' = [inv EXCEPT ![i] =
             IF a.kind = "throw" THEN [me EXCEPT !.pc = "crashed"]
             ELSE IF ~Truthy(callerId)
             THEN Return(me, ErrorResp(401, "Invalid token"))
             ELSE Call([me EXCEPT !.callerId = callerId], "profile",
                       "profiles.select")]
    /\ UNCHANGED <<env, profiles, authUsers>>
    /\ UNCHANGED sessVars
    /\ UNCHANGED scrVars

\* index.ts 34-38: auth.getUser(jwt) answers
GetUserReturn(i, a) ==
    /\ inv[i].pc = "getUser"
    /\ a \in GetUserAnswers(inv[i].jwt)
    /\ LET me == Got(inv[i], a.kind, a.message)
           callerId == IF a.kind = "ok" THEN a.id ELSE Undefined
       IN  inv' = [inv EXCEPT ![i] =
             IF a.kind = "throw" THEN Return(me, ErrorResp(400, ErrorMessage(a)))
             ELSE IF ~Truthy(callerId)
             THEN Return(me, ErrorResp(401, "Invalid token"))
             ELSE Call([me EXCEPT !.callerId = callerId], "profile",
                       "profiles.select")]
    /\ UNCHANGED <<env, profiles, authUsers>>
    /\ UNCHANGED sessVars
    /\ UNCHANGED scrVars

\* index.ts 38-53: the caller's profile row answers; admin gate, body, fields
ProfileReturn(i, a) ==
    /\ inv[i].pc = "profile"
    /\ a \in TableAnswers
    /\ LET rows == SelectById(profiles, inv[i].callerId)
           prof == IF a = "ok" THEN MaybeSingle(rows) ELSE NullRow
           body == inv[i].req.body
           me == [Got(inv[i], a, Undefined) EXCEPT
                     !.prof = prof, !.stored = MaybeSingle(rows).role]
       IN  inv' = [inv EXCEPT ![i] =
             IF Forbidden(me)
             THEN Return(me, ErrorResp(403, "Forbidden (admin only)"))
             ELSE IF ~body.json
             THEN Return(me, ErrorResp(400, ErrorMessage([message |-> NotJson])))
             ELSE IF MissingFields(body)
             THEN Return(me, ErrorResp(400, "Missing fields"))
             ELSE Call(me, "invite", "auth.admin.inviteUserByEmail")]
    /\ UNCHANGED <<env, profiles, authUsers>>
    /\ UNCHANGED sessVars
    /\ UNCHANGED scrVars

InviteReturnRetrying(i, a) ==
    /\ inv[i].pc = "invite"
    /\ a \in InviteAnswers(authUsers, inv[i].req.body.email)
    /\ authUsers' = InviteEffect(authUsers, inv[i].req.body.email, a)
    /\ LET body == inv[i].req.body
           me == Got(inv[i], a.kind, a.message)
           row == [id |-> a.id, full_name |-> body.fullName,
                   role |-> RoleToWrite(body.role)]
       IN  inv' = [inv EXCEPT ![i] =
             IF a.kind = "throw" THEN Return(me, ErrorResp(400, ErrorMessage(a)))
             ELSE IF a.kind # "ok"
             THEN Call(me, "invite", "auth.admin.inviteUserByEmail")
             ELSE IF Truthy(a.id)
             THEN Call([me EXCEPT !.newId = a.id, !.row = row], "upsert",
                       "profiles.upsert")
             ELSE Return(me, SuccessResp(Undefined))]
    /\ UNCHANGED <<env, profiles>>
    /\ UNCHANGED sessVars
    /\ UNCHANGED scrVars

\* index.ts 50-63: inviteUserByEmail answers
InviteReturn(i, a) ==
    /\ inv[i].pc = "invite"
    /\ a \in InviteAnswers(authUsers, inv[i].req.body.email)
    /\ authUsers' = InviteEffect(authUsers, inv[i].req.body.email, a)
    /\ LET body == inv[i].req.body
           me == Got(inv[i], a.kind, a.message)
           row == [id |-> a.id, full_name |-> body.fullName,
                   role |-> RoleToWrite(body.role)]
       IN  inv' = [inv EXCEPT ![i] =
             IF a.kind # "ok" THEN Return(me, ErrorResp(400, ErrorMessage(a)))
             ELSE IF Truthy(a.id)
             THEN Call([me EXCEPT !.newId = a.id, !.row = row], "upsert",
                       "profiles.upsert")
             ELSE Return(me, SuccessResp(Undefined))]
    /\ UNCHANGED <<env, profiles>>
    /\ UNCHANGED sessVars
    /\ UNCHANGED scrVars

\* index.ts 59-66: the upsert answers; its result is not looked at
UpsertReturn(i, a) ==
    /\ inv[i].pc = "upsert"
    /\ a \in TableAnswers
    /\ profiles' = IF a = "ok" THEN UpsertRow(profiles, inv[i].row) ELSE profiles
    /\ inv' = [inv EXCEPT ![i] =
            Return(Got(@, a, Undefined), SuccessResp(@.newId))]
    /\ UNCHANGED <<env, authUsers>>
    /\ UNCHANGED sessVars
    /\ UNCHANGED scrVars

\* the response is sent; the slot serves the next request
Finish(i) ==
    /\ inv[i].pc = "done"
    /\ inv' = [inv EXCEPT ![i] = Idle]
    /\ UNCHANGED <<env, profiles, authUsers>>
    /\ UNCHANGED sessVars
    /\ UNCHANGED scrVars

----------------------------------------------------------------------------
(* The session provider (src/lib/session.tsx) *)

\* the session objects the auth client may hand out
MaxSessions == 3

\* a session object: its principal, its identity as an object, and the
\* sign-in that established the session it stands for
NoSession == [user |-> Null, obj |-> 0, est |-> 0]

SignInUsers == {AdminId, StaffId}

\* session.tsx 20-23: getSession() resolves with the client's current session
GetSessionResolve ==
    /\ getSessionPending
    /\ getSessionPending' = FALSE
    /\ session' = authSess
    /\ loading' = FALSE
    /\ UNCHANGED <<authSess, profile, effectDep, pending, nextObj>>
    /\ UNCHANGED invVars
    /\ UNCHANGED scrVars

\* session.tsx 24-27: the onAuthStateChange callback, called with sess
OnAuthStateChange(sess) ==
    /\ session' = sess
    /\ profile' = IF sess = NoSession THEN NullRow ELSE profile

\* a principal signs in: a new session object
SignIn(u) ==
    /\ nextObj <= MaxSessions
    /\ authSess.user # u
    /\ authSess' = [user |-> u, obj |-> nextObj, est |-> nextObj]
    /\ nextObj' = nextObj + 1
    /\ OnAuthStateChange(authSess')
    /\ UNCHANGED <<loading, getSessionPending, effectDep, pending>>
    /\ UNCHANGED invVars
    /\ UNCHANGED scrVars

\* the token is refreshed, the user updated, or the initial session announced:
\* a new session object of the same principal
SessionRenewed ==
    /\ nextObj <= MaxSessions
    /\ authSess # NoSession
    /\ authSess' = [user |-> authSess.user, obj |-> nextObj, est |-> authSess.est]
    /\ nextObj' = nextObj + 1
    /\ OnAuthStateChange(authSess')
    /\ UNCHANGED <<loading, getSessionPending, effectDep, pending>>
    /\ UNCHANGED invVars
    /\ UNCHANGED scrVars

\* sign-out, or the session expires
SignOut ==
    /\ authSess # NoSession
    /\ authSess' = NoSession
    /\ OnAuthStateChange(NoSession)
    /\ UNCHANGED <<loading, getSessionPending, effectDep, pending, nextObj>>
    /\ UNCHANGED invVars
    /\ UNCHANGED scrVars

\* session.tsx 31-38: the effect on [session] runs and issues the lookup
LoadEffect ==
    /\ session # effectDep
    /\ effectDep' = session
    /\ pending' = IF session = NoSession THEN pending ELSE pending \cup {session}
    /\ UNCHANGED <<authSess, session, loading, profile, getSessionPending, nextObj>>
    /\ UNCHANGED invVars
    /\ UNCHANGED scrVars

LookupReturnProvisioning(p, a) ==
    /\ p \in pending
    /\ a \in TableAnswers
    /\ LET data == IF a = "ok" THEN MaybeSingle(SelectById(profiles, p.user))
                   ELSE NullRow
           fresh == [id |-> p.user, full_name |-> Null, role |-> "viewer"]
       IN  /\ profile' = IF data # NullRow THEN data ELSE fresh
           /\ profiles' = IF a = "ok" /\ data = NullRow
                          THEN UpsertRow(profiles, fresh) ELSE profiles
    /\ pending' = pending \ {p}
    /\ UNCHANGED <<authSess, session, loading, getSessionPending, effectDep, nextObj>>
    /\ UNCHANGED <<env, authUsers, inv>>
    /\ UNCHANGED scrVars

\* session.tsx 34-35: a lookup answers; if (data) setProfile(data)
LookupReturn(p, a) ==
    /\ p \in pending
    /\ a \in TableAnswers
    /\ LET data == IF a = "ok" THEN MaybeSingle(SelectById(profiles, p.user))
                   ELSE NullRow
       IN  profile' = IF data # NullRow THEN data ELSE profile
    /\ pending' = pending \ {p}
    /\ UNCHANGED <<authSess, session, loading, getSessionPending, effectDep, nextObj>>
    /\ UNCHANGED invVars
    /\ UNCHANGED scrVars

----------------------------------------------------------------------------
(* The screens: what each derives from the provider's profile *)

\* profile?.role
OptRole(p) == IF p = NullRow THEN Undefined ELSE p.role

\* Transactions: profile?.role === 'admin' || profile?.role === 'editor'
CanWriteTransactions(p) == OptRole(p) = "admin" \/ OptRole(p) = "editor"

\* Bills
CanWriteBills(p) == OptRole(p) = "admin" \/ OptRole(p) = "editor"

CanWriteSavingsAdminOnly(p) == OptRole(p) = "admin"

\* Savings
CanWriteSavings(p) == OptRole(p) = "admin" \/ OptRole(p) = "editor"

\* Root (navigation): profile?.role === 'admin'
IsAdminRoot(p) == OptRole(p) = "admin"

\* AuditLog
IsAdminAuditLog(p) == OptRole(p) = "admin"

\* AdminInvite: submit returns at once if (profile?.role !== 'admin')
MaySubmitInvite(p) == ~(OptRole(p) # "admin")

\* AdminInvite: the form is rendered unless !profile or profile.role !== 'admin'
ShowsInviteForm(p) == ~(p = NullRow) /\ ~(p.role # "admin")

----------------------------------------------------------------------------
(* What the invite screen renders *)

\* AdminInvite.tsx 55-62: what the component returns for the profile it is
\* handed
AdminInviteView(p) ==
    IF p = NullRow THEN "Loading"
    ELSE IF p.role # "admin" THEN "NotAuthorized"
    ELSE "Form"

----------------------------------------------------------------------------

StaffRows ==
    {{}} \cup {{[id |-> StaffId, full_name |-> "Staff", role |-> r]} :
                  r \in {"viewer", "editor"}}

InitialSessions ==
    {NoSession} \cup {[user |-> u, obj |-> 1, est |-> 1] : u \in SignInUsers}

\* the tables as the deployment finds them
InitStore ==
    /\ \E staff \in StaffRows :
          profiles = {[id |-> AdminId, full_name |-> "Owner", role |-> "admin"]}
                     \cup staff
    /\ authUsers = {[email |-> "owner@shop.com", id |-> AdminId, confirmed |-> TRUE],
                    [email |-> "staff@shop.com", id |-> StaffId, confirmed |-> TRUE]}
    /\ inv = [i \in Invs |-> Idle]

\* session.tsx 15-17: the provider as mounted, getSession() and the
\* subscription issued, the client holding the session s
Mounted(s) ==
    /\ authSess = s
    /\ session = NoSession
    /\ loading = TRUE
    /\ profile = NullRow
    /\ getSessionPending = TRUE
    /\ effectDep = NoSession
    /\ pending = {}
    /\ nextObj = 2

\* no screen is mounted; the tables the screens work on are empty
NoScreen ==
    /\ route = "none"
    /\ transactions = {}
    /\ bills = {}
    /\ savings = [goals |-> {}, contributions |-> {}]
    /\ ui = [screen |-> "none"]
    /\ ops = <<>>
    /\ nextId = 1

Init ==
    /\ env \in Envs
    /\ InitStore
    /\ Mounted(NoSession)
    /\ NoScreen

InitSession ==
    /\ env = [url |-> "https://proj.supabase.co", key |-> "service-role-secret"]
    /\ InitStore
    /\ \E s \in InitialSessions : Mounted(s)
    /\ NoScreen

\* the invite function, one request at a time
Next ==
    \/ \E i \in Sequential, r \in Requests : Start(i, r)
    \/ \E i \in Sequential : \E a \in GetUserAnswers(inv[i].jwt) : GetUserReturn(i, a)
    \/ \E i \in Sequential, a \in TableAnswers : ProfileReturn(i, a)
    \/ \E i \in Sequential :
          \E a \in InviteAnswers(authUsers, inv[i].req.body.email) : InviteReturn(i, a)
    \/ \E i \in Sequential, a \in TableAnswers : UpsertReturn(i, a)
    \/ \E i \in Sequential : Finish(i)

Spec == Init /\ [][Next]_vars

\* each external call of an invocation eventually returns or throws
CallsAnswered ==
    \A i \in Sequential :
        /\ WF_vars(\E a \in GetUserAnswers(inv[i].jwt) : GetUserReturn(i, a))
        /\ WF_vars(\E a \in TableAnswers : ProfileReturn(i, a))
        /\ WF_vars(\E a \in InviteAnswers(authUsers, inv[i].req.body.email) :
                      InviteReturn(i, a))
        /\ WF_vars(\E a \in TableAnswers : UpsertReturn(i, a))

SpecLive == Spec /\ CallsAnswered

\* the session provider, mounted in a browser
NextSession ==
    \/ GetSessionResolve
    \/ \E u \in SignInUsers : SignIn(u)
    \/ SessionRenewed
    \/ SignOut
    \/ LoadEffect
    \/ \E p \in pending, a \in TableAnswers : LookupReturn(p, a)

SpecSession == InitSession /\ [][NextSession]_vars

\* invitations of the same target, sent by admins at the same time
ConcRequests ==
    {[method |-> "POST", header |-> BearerPrefix \o TokAdmin,
      body |-> [json |-> TRUE, email |-> "new@shop.com",
                fullName |-> "Juan Dela Cruz", role |-> role]] :
        role \in {"viewer", "editor"}}

InitConc ==
    /\ env = [url |-> "https://proj.supabase.co", key |-> "service-role-secret"]
    /\ InitStore
    /\ Mounted(NoSession)
    /\ NoScreen

\* the invite function, its invocations interleaved at their awaits
NextConc ==
    \/ \E i \in Invs, r \in ConcRequests : Start(i, r)
    \/ \E i \in Invs : \E a \in GetUserAnswers(inv[i].jwt) : GetUserReturn(i, a)
    \/ \E i \in Invs, a \in TableAnswers : ProfileReturn(i, a)
    \/ \E i \in Invs :
          \E a \in InviteAnswers(authUsers, inv[i].req.body.email) : InviteReturn(i, a)
    \/ \E i \in Invs, a \in TableAnswers : UpsertReturn(i, a)

SpecConc == InitConc /\ [][NextConc]_vars

\* the access token the client holds for a principal; the anon key otherwise
TokenOf(u) ==
    IF u = AdminId THEN TokAdmin ELSE IF u = StaffId THEN TokStaff ELSE TokBad

\* what the invite form may hold when it is submitted
InviteForms ==
    [json : {TRUE}, email : {"new@shop.com"}, fullName : {"Juan Dela Cruz"},
     role : {"viewer", "admin"}]

\* AdminInvite.tsx 27-38: the form is submitted; functions.invoke('invite')
\* sends the body with the client's token
Submit(i, body) ==
    /\ MaySubmitInvite(profile)
    /\ Start(i, [method |-> "POST",
                 header |-> BearerPrefix \o TokenOf(authSess.user),
                 body |-> body])

\* the client in a browser and the invite function it calls
NextSystem ==
    \/ NextSession
    \/ \E i \in Sequential, body \in InviteForms : Submit(i, body)
    \/ \E i \in Sequential : \E a \in GetUserAnswers(inv[i].jwt) : GetUserReturn(i, a)
    \/ \E i \in Sequential, a \in TableAnswers : ProfileReturn(i, a)
    \/ \E i \in Sequential :
          \E a \in InviteAnswers(authUsers, inv[i].req.body.email) : InviteReturn(i, a)
    \/ \E i \in Sequential, a \in TableAnswers : UpsertReturn(i, a)
    \/ \E i \in Sequential : Finish(i)

SpecSystem == InitSession /\ [][NextSystem]_vars

----------------------------------------------------------------------------
(* The screens' requests *)

\* the requests a screen may have in flight
MaxOps == 2

OpSlots == 1 .. MaxOps

NoOp == [kind |-> "none"]

NoOps == [s \in OpSlots |-> NoOp]

\* the row ids the store hands out
MaxId == 3

\* the profiles useSession() may hand to a screen
ScreenProfiles ==
    {NullRow, [id |-> AdminId, full_name |-> "Owner", role |-> "admin"]}
    \cup {[id |-> StaffId, full_name |-> "Staff", role |-> r] :
             r \in {"viewer", "editor"}}

\* the deployment a screen talks to: the function idle, a staff row stored
ScreenStore ==
    /\ env = [url |-> "https://proj.supabase.co", key |-> "service-role-secret"]
    /\ profiles = {[id |-> AdminId, full_name |-> "Owner", role |-> "admin"],
                   [id |-> StaffId, full_name |-> "Staff", role |-> "editor"]}
    /\ authUsers = {[email |-> "owner@shop.com", id |-> AdminId, confirmed |-> TRUE],
                    [email |-> "staff@shop.com", id |-> StaffId, confirmed |-> TRUE]}
    /\ inv = [i \in Invs |-> Idle]

\* the provider when its lookup has answered with p
Resolved(p) ==
    /\ authSess = [user |-> IF p = NullRow THEN StaffId ELSE p.id, obj |-> 1, est |-> 1]
    /\ session = authSess
    /\ loading = FALSE
    /\ profile = p
    /\ getSessionPending = FALSE
    /\ effectDep = authSess
    /\ pending = {}
    /\ nextObj = 2

\* what an amount field may hold when its form is submitted
Texts == {"", "2", "abc"}

\* Number(text) is NaN
IsNaN(t) == t \notin {"", "2"}

\* Number(text), where it is a number
NumberOf(t) == IF t = "2" THEN 2 ELSE 0

\* the message of the error a table call answers with
StoreError == "permission denied for table"

\* the first free slot takes the request
Issue(op) ==
    \E s \in OpSlots :
        /\ ops[s] = NoOp
        /\ \A t \in OpSlots : t < s => ops[t] # NoOp
        /\ ops' = [ops EXCEPT ![s] = op]

\* the inserts that will still ask the store for a row id
Inserting == Cardinality({s \in OpSlots : ops[s].kind \in {"insert", "expense"}})

----------------------------------------------------------------------------
(* The Transactions screen (src/routes/Transactions.tsx) *)

TxRow(id, type, amount, bill) ==
    [id |-> id, type |-> type, amount |-> amount, bill |-> bill]

\* part_003 21-36: the component's state as mounted
TxMounted ==
    [items |-> {}, loading |-> TRUE, error |-> Null, editingId |-> 0,
     savingEdit |-> FALSE]

\* part_003 38: Number(amount) > 0 && !!date && !!category
Valid(amount) == ~IsNaN(amount) /\ NumberOf(amount) > 0

TxOp(kind, id, amount, prev) ==
    [kind |-> kind, id |-> id, amount |-> amount, prev |-> prev]

\* what a Transactions handler leaves alone
TxFrame ==
    /\ UNCHANGED <<route, bills, savings>>
    /\ UNCHANGED invVars
    /\ UNCHANGED sessVars

\* part_003 40-50: the select of refresh() answers
TxRefreshReturn(s, a) ==
    /\ route = "transactions"
    /\ ops[s].kind = "select"
    /\ a \in TableAnswers
    /\ ui' = IF a = "error"
             THEN [ui EXCEPT !.loading = FALSE, !.error = StoreError]
             ELSE [ui EXCEPT !.loading = FALSE, !.items = transactions]
    /\ ops' = [ops EXCEPT ![s] = NoOp]
    /\ UNCHANGED <<transactions, nextId>>
    /\ TxFrame

TxAddUnguarded(amount) ==
    /\ route = "transactions"
    /\ amount \in Texts
    /\ IF ~Valid(amount)
       THEN /\ ui' = [ui EXCEPT !.error = "Please enter a positive amount."]
            /\ UNCHANGED ops
       ELSE /\ nextId + Inserting <= MaxId
            /\ Issue(TxOp("insert", 0, NumberOf(amount), {}))
            /\ ui' = [ui EXCEPT !.error = Null]
    /\ UNCHANGED <<transactions, nextId>>
    /\ TxFrame

\* part_003 55-61: add with the amount field holding that text, up to the
\* insert
TxAdd(amount) ==
    /\ route = "transactions"
    /\ amount \in Texts
    /\ IF ~CanWriteTransactions(profile)
       THEN /\ ui' = [ui EXCEPT !.error =
                         "You do not have permission to add transactions."]
            /\ UNCHANGED ops
       ELSE IF ~Valid(amount)
       THEN /\ ui' = [ui EXCEPT !.error = "Please enter a positive amount."]
            /\ UNCHANGED ops
       ELSE /\ nextId + Inserting <= MaxId
            /\ Issue(TxOp("insert", 0, NumberOf(amount), {}))
            /\ ui' = [ui EXCEPT !.error = Null]
    /\ UNCHANGED <<transactions, nextId>>
    /\ TxFrame

\* part_003 61-64: the insert answers; refresh() on success
TxAddReturn(s, a) ==
    /\ route = "transactions"
    /\ ops[s].kind = "insert"
    /\ a \in TableAnswers
    /\ IF a = "error"
       THEN /\ ui' = [ui EXCEPT !.error = StoreError]
            /\ ops' = [ops EXCEPT ![s] = NoOp]
            /\ UNCHANGED <<transactions, nextId>>
       ELSE /\ transactions' =
                  transactions \cup {TxRow(nextId, "income", ops[s].amount, 0)}
            /\ nextId' = nextId + 1
            /\ ui' = [ui EXCEPT !.loading = TRUE]
            /\ ops' = [ops EXCEPT ![s] = TxOp("select", 0, 0, {})]
    /\ TxFrame

\* part_003 67-69: del of a displayed row, up to the delete
TxDel(id) ==
    /\ route = "transactions"
    /\ \E r \in ui.items : r.id = id
    /\ ui.editingId # id
    /\ CanWriteTransactions(profile)
    /\ Issue(TxOp("delete", id, 0, {}))
    /\ UNCHANGED <<transactions, ui, nextId>>
    /\ TxFrame

\* part_003 69-70: the delete answers
TxDelReturn(s, a) ==
    /\ route = "transactions"
    /\ ops[s].kind = "delete"
    /\ a \in TableAnswers
    /\ IF a = "error"
       THEN UNCHANGED <<transactions, ui>>
       ELSE /\ transactions' = {r \in transactions : r.id # ops[s].id}
            /\ ui' = [ui EXCEPT !.items = {r \in @ : r.id # ops[s].id}]
    /\ ops' = [ops EXCEPT ![s] = NoOp]
    /\ UNCHANGED nextId
    /\ TxFrame

\* part_003 74-79: startEdit of a displayed row
TxStartEdit(id) ==
    /\ route = "transactions"
    /\ ui.editingId # id
    /\ CanWriteTransactions(profile)
    /\ \E r \in ui.items :
          /\ r.id = id
          /\ ui' = [ui EXCEPT !.editingId = id, !.error = Null]
    /\ UNCHANGED <<transactions, ops, nextId>>
    /\ TxFrame

\* part_003 81-84: cancelEdit
TxCancelEdit ==
    /\ route = "transactions"
    /\ ui.editingId # 0
    /\ ui' = [ui EXCEPT !.editingId = 0]
    /\ UNCHANGED <<transactions, ops, nextId>>
    /\ TxFrame

\* part_003 86-99: saveEdit of the row being edited, its amount field
\* holding that text, up to the update
TxSaveEdit(id, editAmount) ==
    /\ route = "transactions"
    /\ editAmount \in Texts
    /\ ui.editingId = id
    /\ ~ui.savingEdit
    /\ \E r \in ui.items : r.id = id
    /\ CanWriteTransactions(profile)
    /\ LET newAmt == NumberOf(editAmount)
       IN  IF IsNaN(editAmount) \/ newAmt <= 0
           THEN /\ ui' = [ui EXCEPT !.error = "Amount must be a positive number."]
                /\ UNCHANGED ops
           ELSE /\ Issue(TxOp("update", id, newAmt, ui.items))
                /\ ui' = [ui EXCEPT
                            !.savingEdit = TRUE,
                            !.items = {IF r.id = id THEN [r EXCEPT !.amount = newAmt]
                                       ELSE r : r \in @}]
    /\ UNCHANGED <<transactions, nextId>>
    /\ TxFrame

\* part_003 99-109: the update answers; rollback on error
TxUpdateReturn(s, a) ==
    /\ route = "transactions"
    /\ ops[s].kind = "update"
    /\ a \in TableAnswers
    /\ IF a = "error"
       THEN /\ ui' = [ui EXCEPT !.savingEdit = FALSE, !.error = StoreError,
                                !.items = ops[s].prev]
            /\ UNCHANGED transactions
       ELSE /\ transactions' =
                  {IF r.id = ops[s].id THEN [r EXCEPT !.amount = ops[s].amount]
                   ELSE r : r \in transactions}
            /\ ui' = [ui EXCEPT !.savingEdit = FALSE, !.editingId = 0]
    /\ ops' = [ops EXCEPT ![s] = NoOp]
    /\ UNCHANGED nextId
    /\ TxFrame

\* the Transactions screen mounts on a table of one row; refresh() is issued
InitTransactions ==
    /\ ScreenStore
    /\ \E p \in ScreenProfiles : Resolved(p)
    /\ route = "transactions"
    /\ transactions = {TxRow(1, "expense", 1, 0)}
    /\ bills = {}
    /\ savings = [goals |-> {}, contributions |-> {}]
    /\ ui = TxMounted
    /\ ops = [NoOps EXCEPT ![1] = TxOp("select", 0, 0, {})]
    /\ nextId = MaxId

NextTransactions ==
    \/ \E s \in OpSlots, a \in TableAnswers : TxRefreshReturn(s, a)
    \/ \E t \in Texts : TxAdd(t)
    \/ \E s \in OpSlots, a \in TableAnswers : TxAddReturn(s, a)
    \/ \E id \in 1 .. MaxId : TxDel(id)
    \/ \E s \in OpSlots, a \in TableAnswers : TxDelReturn(s, a)
    \/ \E id \in 1 .. MaxId : TxStartEdit(id)
    \/ TxCancelEdit
    \/ \E id \in 1 .. MaxId, t \in Texts : TxSaveEdit(id, t)
    \/ \E s \in OpSlots, a \in TableAnswers : TxUpdateReturn(s, a)

SpecTransactions == InitTransactions /\ [][NextTransactions]_vars

----------------------------------------------------------------------------
(* The Bills screen (src/routes/Bills.tsx) *)

\* new Date().toISOString()
NowISO == "2025-01-01T00:00:00.000Z"

\* a row of "bills"; transaction_id 0 is null
BillRow(id, amount, paid, paid_at, transaction_id) ==
    [id |-> id, amount |-> amount, paid |-> paid, paid_at |-> paid_at,
     transaction_id |-> transaction_id]

NoBill == BillRow(0, 0, FALSE, Null, 0)

\* the bill the store holds when the screen mounts
FirstBill == BillRow(MaxId + 1, 1, FALSE, Null, 0)

\* part_004 594-602: the component's state as mounted
BillsMounted == [items |-> {}, deletingId |-> 0]

\* a request of the screen in flight: the bill its handler was called with,
\* and the transaction id the handler holds
BillOp(kind, bill, txnId) == [kind |-> kind, bill |-> bill, txnId |-> txnId]

BillsFrame ==
    /\ UNCHANGED <<route, savings>>
    /\ UNCHANGED invVars
    /\ UNCHANGED sessVars

\* the rows with one field set where the id matches
SetWhere(rows, id, paid, paid_at, transaction_id) ==
    {IF b.id = id
     THEN [b EXCEPT !.paid = paid, !.paid_at = paid_at,
                    !.transaction_id = transaction_id]
     ELSE b : b \in rows}

\* part_004 604-611: the select of refresh() answers
BillsRefreshReturn(s, a) ==
    /\ route = "bills"
    /\ ops[s].kind = "select"
    /\ a \in TableAnswers
    /\ ui' = IF a = "ok" THEN [ui EXCEPT !.items = bills] ELSE ui
    /\ ops' = [ops EXCEPT ![s] = NoOp]
    /\ UNCHANGED <<transactions, bills, nextId>>
    /\ BillsFrame

\* part_004 615-627: add with the amount field holding that text
BillsAdd(amt) ==
    /\ route = "bills"
    /\ amt \in Texts
    /\ CanWriteBills(profile)
    /\ ~(IsNaN(amt) \/ NumberOf(amt) <= 0)
    /\ nextId + Inserting <= MaxId
    /\ Issue(BillOp("insert", BillRow(0, NumberOf(amt), FALSE, Null, 0), 0))
    /\ UNCHANGED <<transactions, bills, ui, nextId>>
    /\ BillsFrame

\* part_004 621-632: the insert answers, its result is not looked at;
\* refresh()
BillsAddReturn(s, a) ==
    /\ route = "bills"
    /\ ops[s].kind = "insert"
    /\ a \in TableAnswers
    /\ IF a = "ok"
       THEN /\ bills' = bills \cup {[ops[s].bill EXCEPT !.id = nextId]}
            /\ nextId' = nextId + 1
       ELSE UNCHANGED <<bills, nextId>>
    /\ ops' = [ops EXCEPT ![s] = BillOp("select", NoBill, 0)]
    /\ UNCHANGED <<transactions, ui>>
    /\ BillsFrame

\* part_004 635-656, 681-689: togglePaid of a displayed bill, up to its
\* first request
BillsTogglePaid(id) ==
    /\ route = "bills"
    /\ CanWriteBills(profile)
    /\ \E b \in ui.items :
          /\ b.id = id
          /\ IF ~b.paid
             THEN IF b.transaction_id = 0
                  THEN /\ nextId + Inserting <= MaxId
                       /\ Issue(BillOp("expense", b, 0))
                  ELSE Issue(BillOp("markPaid", b, b.transaction_id))
             ELSE IF b.transaction_id # 0
             THEN Issue(BillOp("unlink", b, b.transaction_id))
             ELSE Issue(BillOp("markUnpaid", b, 0))
    /\ UNCHANGED <<transactions, bills, ui, nextId>>
    /\ BillsFrame

\* part_004 646-669: the insert of the expense answers; the update of the
\* bill is issued
BillsExpenseReturn(s, a) ==
    /\ route = "bills"
    /\ ops[s].kind = "expense"
    /\ a \in TableAnswers
    /\ IF a = "error"
       THEN /\ ops' = [ops EXCEPT ![s] = NoOp]
            /\ UNCHANGED <<transactions, nextId>>
       ELSE /\ transactions' = transactions \cup
                  {TxRow(nextId, "expense", ops[s].bill.amount, ops[s].bill.id)}
            /\ nextId' = nextId + 1
            /\ ops' = [ops EXCEPT ![s] = BillOp("markPaid", @.bill, nextId)]
    /\ UNCHANGED <<bills, ui>>
    /\ BillsFrame

\* part_004 666-678: the update that marks the bill paid answers
BillsMarkPaidReturn(s, a) ==
    /\ route = "bills"
    /\ ops[s].kind = "markPaid"
    /\ a \in TableAnswers
    /\ IF a = "error"
       THEN UNCHANGED <<bills, ui>>
       ELSE /\ bills' = SetWhere(bills, ops[s].bill.id, TRUE, NowISO, ops[s].txnId)
            /\ ui' = [ui EXCEPT !.items =
                        SetWhere(@, ops[s].bill.id, TRUE, NowISO, ops[s].txnId)]
    /\ ops' = [ops EXCEPT ![s] = NoOp]
    /\ UNCHANGED <<transactions, nextId>>
    /\ BillsFrame

\* part_004 683-689: the delete of the linked expense answers, its result is
\* not looked at; the update of the bill is issued
BillsUnlinkReturn(s, a) ==
    /\ route = "bills"
    /\ ops[s].kind = "unlink"
    /\ a \in TableAnswers
    /\ transactions' = IF a = "ok"
                       THEN {t \in transactions : t.id # ops[s].txnId}
                       ELSE transactions
    /\ ops' = [ops EXCEPT ![s] = BillOp("markUnpaid", @.bill, @.txnId)]
    /\ UNCHANGED <<bills, ui, nextId>>
    /\ BillsFrame

\* part_004 686-697: the update that marks the bill unpaid answers
BillsMarkUnpaidReturn(s, a) ==
    /\ route = "bills"
    /\ ops[s].kind = "markUnpaid"
    /\ a \in TableAnswers
    /\ IF a = "error"
       THEN UNCHANGED <<bills, ui>>
       ELSE /\ bills' = SetWhere(bills, ops[s].bill.id, FALSE, Null, 0)
            /\ ui' = [ui EXCEPT !.items =
                        SetWhere(@, ops[s].bill.id, FALSE, Null, 0)]
    /\ ops' = [ops EXCEPT ![s] = NoOp]
    /\ UNCHANGED <<transactions, nextId>>
    /\ BillsFrame

\* part_004 702-723: del of a displayed bill, confirmed or not, up to its
\* first request
BillsDel(id, confirmed) ==
    /\ route = "bills"
    /\ ui.deletingId # id
    /\ CanWriteBills(profile)
    /\ confirmed
    /\ \E b \in ui.items :
          /\ b.id = id
          /\ IF b.transaction_id # 0
             THEN Issue(BillOp("delLinked", b, b.transaction_id))
             ELSE Issue(BillOp("delBill", b, 0))
    /\ ui' = [ui EXCEPT !.deletingId = id]
    /\ UNCHANGED <<transactions, bills, nextId>>
    /\ BillsFrame

\* part_004 720-723: the delete of the linked expense answers, its result is
\* not looked at; the delete of the bill is issued
BillsDelLinkedReturn(s, a) ==
    /\ route = "bills"
    /\ ops[s].kind = "delLinked"
    /\ a \in TableAnswers
    /\ transactions' = IF a = "ok"
                       THEN {t \in transactions : t.id # ops[s].txnId}
                       ELSE transactions
    /\ ops' = [ops EXCEPT ![s] = BillOp("delBill", @.bill, @.txnId)]
    /\ UNCHANGED <<bills, ui, nextId>>
    /\ BillsFrame

\* part_004 723-726: the delete of the bill answers, its result is not
\* looked at
BillsDelReturn(s, a) ==
    /\ route = "bills"
    /\ ops[s].kind = "delBill"
    /\ a \in TableAnswers
    /\ bills' = IF a = "ok" THEN {b \in bills : b.id # ops[s].bill.id} ELSE bills
    /\ ui' = [ui EXCEPT !.deletingId = 0,
                        !.items = {b \in @ : b.id # ops[s].bill.id}]
    /\ ops' = [ops EXCEPT ![s] = NoOp]
    /\ UNCHANGED <<transactions, nextId>>
    /\ BillsFrame

\* the Bills screen mounts on a table of one unpaid bill; refresh() is issued
InitBills ==
    /\ ScreenStore
    /\ \E p \in ScreenProfiles : Resolved(p)
    /\ route = "bills"
    /\ transactions = {}
    /\ bills = {FirstBill}
    /\ savings = [goals |-> {}, contributions |-> {}]
    /\ ui = BillsMounted
    /\ ops = [NoOps EXCEPT ![1] = BillOp("select", NoBill, 0)]
    /\ nextId = 1

BillIds == 1 .. MaxId + 1

NextBills ==
    \/ \E s \in OpSlots, a \in TableAnswers : BillsRefreshReturn(s, a)
    \/ \E t \in Texts : BillsAdd(t)
    \/ \E s \in OpSlots, a \in TableAnswers : BillsAddReturn(s, a)
    \/ \E id \in BillIds : BillsTogglePaid(id)
    \/ \E s \in OpSlots, a \in TableAnswers : BillsExpenseReturn(s, a)
    \/ \E s \in OpSlots, a \in TableAnswers : BillsMarkPaidReturn(s, a)
    \/ \E s \in OpSlots, a \in TableAnswers : BillsUnlinkReturn(s, a)
    \/ \E s \in OpSlots, a \in TableAnswers : BillsMarkUnpaidReturn(s, a)
    \/ \E id \in BillIds, confirmed \in BOOLEAN : BillsDel(id, confirmed)
    \/ \E s \in OpSlots, a \in TableAnswers : BillsDelLinkedReturn(s, a)
    \/ \E s \in OpSlots, a \in TableAnswers : BillsDelReturn(s, a)

SpecBills == InitBills /\ [][NextBills]_vars

----------------------------------------------------------------------------
(* The Reports screen (src/routes/Reports.tsx) *)

\* the months a date field may hold
MaxMonth == 2

Months == 1 .. MaxMonth

\* Reports.tsx 36-39: what monthly_profit answers for a range, one row per
\* month of the range
MonthlyProfit(from, to) ==
    {[month |-> m, income |-> 2, expenses |-> 1, profit |-> 1] : m \in from .. to}

\* Reports.tsx 55-66: the totals displayed over the rows
Totals(rows) ==
    [income |-> 2 * Cardinality(rows), expenses |-> Cardinality(rows),
     profit |-> Cardinality(rows)]

\* Reports.tsx 27-31
ReportsMounted ==
    [fromDate |-> 1, toDate |-> MaxMonth, rows |-> {}, loading |-> TRUE,
     error |-> Null]

ReportOp(from, to) == [kind |-> "rpc", from |-> from, to |-> to]

\* what a Reports handler leaves alone
ReportsFrame ==
    /\ UNCHANGED <<route, transactions, bills, savings, nextId>>
    /\ UNCHANGED invVars
    /\ UNCHANGED sessVars

\* Reports.tsx 75, 53, 33-39: the From field changes, the effect runs
\* fetchData with the dates of that render
ReportsSetFromDate(d) ==
    /\ route = "reports"
    /\ d \in Months
    /\ d # ui.fromDate
    /\ Issue(ReportOp(d, ui.toDate))
    /\ ui' = [ui EXCEPT !.fromDate = d, !.loading = TRUE, !.error = Null]
    /\ ReportsFrame

\* Reports.tsx 79, 53, 33-39: the To field changes
ReportsSetToDate(d) ==
    /\ route = "reports"
    /\ d \in Months
    /\ d # ui.toDate
    /\ Issue(ReportOp(ui.fromDate, d))
    /\ ui' = [ui EXCEPT !.toDate = d, !.loading = TRUE, !.error = Null]
    /\ ReportsFrame

\* Reports.tsx 40-49: a monthly_profit request answers
ReportsFetchReturn(s, a) ==
    /\ route = "reports"
    /\ ops[s].kind = "rpc"
    /\ a \in TableAnswers
    /\ ui' = IF a = "error"
             THEN [ui EXCEPT !.loading = FALSE, !.error = StoreError]
             ELSE [ui EXCEPT !.loading = FALSE,
                             !.rows = MonthlyProfit(ops[s].from, ops[s].to)]
    /\ ops' = [ops EXCEPT ![s] = NoOp]
    /\ ReportsFrame

\* Reports.tsx 52-53: both effects run on mount, each calls fetchData
InitReports ==
    /\ ScreenStore
    /\ \E p \in ScreenProfiles : Resolved(p)
    /\ route = "reports"
    /\ transactions = {}
    /\ bills = {}
    /\ savings = [goals |-> {}, contributions |-> {}]
    /\ ui = ReportsMounted
    /\ ops = [s \in OpSlots |-> IF s <= 2 THEN ReportOp(1, MaxMonth) ELSE NoOp]
    /\ nextId = 1

NextReports ==
    \/ \E d \in Months : ReportsSetFromDate(d)
    \/ \E d \in Months : ReportsSetToDate(d)
    \/ \E s \in OpSlots, a \in TableAnswers : ReportsFetchReturn(s, a)

SpecReports == InitReports /\ [][NextReports]_vars

----------------------------------------------------------------------------
(* The Savings screen (src/routes/Savings.tsx) *)

\* part_004 1133-1134
GoalRow(id, target) == [id |-> id, target |-> target]

ContribRow(id, goal_id, amount) == [id |-> id, goal_id |-> goal_id, amount |-> amount]

\* part_004 1140-1147
SavingsMounted == [goals |-> {}, contribs |-> {}, goalId |-> 0]

SvOp(kind, goal, amount) == [kind |-> kind, goal |-> goal, amount |-> amount]

\* what a goal's name field may hold
GoalNames == {"", "Laptop"}

\* the row ids the inserts in flight will still ask the store for
SvInserting ==
    Cardinality({s \in OpSlots : ops[s].kind \in {"goal", "sv_txn"}})
    + 2 * Cardinality({s \in OpSlots : ops[s].kind = "contribution"})

\* what a Savings handler leaves alone
SavingsFrame ==
    /\ UNCHANGED <<route, bills>>
    /\ UNCHANGED invVars
    /\ UNCHANGED sessVars

\* goals[0] of the goals ordered by created_at, descending
LatestGoal(goals) == CHOOSE g \in goals : \A h \in goals : h.id <= g.id

\* part_004 1149-1158: both selects of refresh() have answered; the effect
\* on [goals, goalId] picks the first goal when none is selected
SvRefreshReturn(s, ag, ac) ==
    /\ route = "savings"
    /\ ops[s].kind = "sv_select"
    /\ ag \in TableAnswers
    /\ ac \in TableAnswers
    /\ LET g == IF ag = "ok" THEN savings.goals ELSE {}
           c == IF ac = "ok" THEN savings.contributions ELSE {}
       IN  ui' = [ui EXCEPT !.goals = g, !.contribs = c,
                            !.goalId = IF g # {} /\ ui.goalId = 0
                                       THEN LatestGoal(g).id ELSE @]
    /\ ops' = [ops EXCEPT ![s] = NoOp]
    /\ UNCHANGED <<transactions, savings, nextId>>
    /\ SavingsFrame

\* part_004 1160-1165: addGoal with the fields holding these texts, up to the
\* insert
SvAddGoal(gName, gTarget) ==
    /\ route = "savings"
    /\ gName \in GoalNames
    /\ gTarget \in Texts
    /\ IF ~CanWriteSavings(profile)
       THEN UNCHANGED ops
       ELSE IF gName = "" \/ IsNaN(gTarget) \/ NumberOf(gTarget) < 0
       THEN UNCHANGED ops
       ELSE /\ nextId + SvInserting <= MaxId
            /\ Issue(SvOp("goal", 0, NumberOf(gTarget)))
    /\ UNCHANGED <<transactions, savings, ui, nextId>>
    /\ SavingsFrame

\* part_004 1165-1166: the insert of the goal answers; its result is not
\* looked at, refresh() is called
SvAddGoalReturn(s, a) ==
    /\ route = "savings"
    /\ ops[s].kind = "goal"
    /\ a \in TableAnswers
    /\ IF a = "ok"
       THEN /\ savings' = [savings EXCEPT
                              !.goals = @ \cup {GoalRow(nextId, ops[s].amount)}]
            /\ nextId' = nextId + 1
       ELSE UNCHANGED <<savings, nextId>>
    /\ ops' = [ops EXCEPT ![s] = SvOp("sv_select", 0, 0)]
    /\ UNCHANGED <<transactions, ui>>
    /\ SavingsFrame

\* part_004 1169-1174: addContribution with the amount field holding that
\* text, up to the insert of the contribution
SvAddContribution(amount) ==
    /\ route = "savings"
    /\ amount \in Texts
    /\ IF ~CanWriteSavings(profile) \/ ui.goalId = 0
       THEN UNCHANGED ops
       ELSE IF IsNaN(amount) \/ NumberOf(amount) <= 0
       THEN UNCHANGED ops
       ELSE /\ nextId + SvInserting + 1 <= MaxId
            /\ Issue(SvOp("contribution", ui.goalId, NumberOf(amount)))
    /\ UNCHANGED <<transactions, savings, ui, nextId>>
    /\ SavingsFrame

\* part_004 1174-1175: the insert of the contribution answers; its result is
\* not looked at, the insert of the transaction follows
SvContributionReturn(s, a) ==
    /\ route = "savings"
    /\ ops[s].kind = "contribution"
    /\ a \in TableAnswers
    /\ IF a = "ok"
       THEN /\ savings' = [savings EXCEPT !.contributions =
                              @ \cup {ContribRow(nextId, ops[s].goal, ops[s].amount)}]
            /\ nextId' = nextId + 1
       ELSE UNCHANGED <<savings, nextId>>
    /\ ops' = [ops EXCEPT ![s] = SvOp("sv_txn", @.goal, @.amount)]
    /\ UNCHANGED <<transactions, ui>>
    /\ SavingsFrame

\* part_004 1175-1181: the insert of the transaction answers; refresh()
SvTxnReturn(s, a) ==
    /\ route = "savings"
    /\ ops[s].kind = "sv_txn"
    /\ a \in TableAnswers
    /\ IF a = "ok"
       THEN /\ transactions' =
                  transactions \cup {TxRow(nextId, "savings", ops[s].amount, 0)}
            /\ nextId' = nextId + 1
       ELSE UNCHANGED <<transactions, nextId>>
    /\ ops' = [ops EXCEPT ![s] = SvOp("sv_select", 0, 0)]
    /\ UNCHANGED <<savings, ui>>
    /\ SavingsFrame

\* part_004 1157: the screen as mounted, refresh() issued; one goal stored
InitSavings ==
    /\ ScreenStore
    /\ \E p \in ScreenProfiles : Resolved(p)
    /\ route = "savings"
    /\ transactions = {}
    /\ bills = {}
    /\ savings = [goals |-> {GoalRow(MaxId + 1, 0)}, contributions |-> {}]
    /\ ui = SavingsMounted
    /\ ops = [NoOps EXCEPT ![1] = SvOp("sv_select", 0, 0)]
    /\ nextId = 1

NextSavings ==
    \/ \E s \in OpSlots, ag \in TableAnswers, ac \in TableAnswers :
          SvRefreshReturn(s, ag, ac)
    \/ \E n \in GoalNames, t \in Texts : SvAddGoal(n, t)
    \/ \E s \in OpSlots, a \in TableAnswers : SvAddGoalReturn(s, a)
    \/ \E t \in Texts : SvAddContribution(t)
    \/ \E s \in OpSlots, a \in TableAnswers : SvContributionReturn(s, a)
    \/ \E s \in OpSlots, a \in TableAnswers : SvTxnReturn(s, a)

SpecSavings == InitSavings /\ [][NextSavings]_vars

----------------------------------------------------------------------------
(* The invite screen (src/routes/AdminInvite.tsx) and the function it calls *)

\* AdminInvite.tsx 12-15: the fields as mounted, and after a success
EmptyForm == [fullName |-> "", email |-> "", password |-> "", role |-> "viewer"]

\* what the fields may hold once they are filled in
FilledForms ==
    {[fullName |-> "Juan Dela Cruz", email |-> e, password |-> "hunter22", role |-> r] :
        e \in {"new@shop.com", "staff@shop.com"}, r \in {"viewer", "admin"}}

NotAuthorizedText == "Not authorized. Admins only."

UserCreatedText ==
    "User created. If email confirmations are enabled, the user will receive a verification link."

\* the message of the error functions.invoke answers with for a response
\* that is not 2xx
Non2xx == "Edge Function returned a non-2xx status code"

\* AdminInvite.tsx 12-25: the screen as mounted with the profile p, the
\* effect on [profile] run
InviteMounted(p) ==
    [fields |-> EmptyForm, busy |-> FALSE, msg |-> Null,
     error |-> IF p # NullRow /\ p.role # "admin" THEN NotAuthorizedText ELSE Null]

\* what a handler of the invite screen leaves alone
InviteFrame ==
    /\ UNCHANGED <<route, transactions, bills, savings, nextId>>
    /\ UNCHANGED sessVars

\* AdminInvite.tsx 83-126: a field of the rendered form is changed
InviteEdit(f) ==
    /\ route = "invite"
    /\ ShowsInviteForm(profile)
    /\ f \in FilledForms
    /\ f # ui.fields
    /\ ui' = [ui EXCEPT !.fields = f]
    /\ UNCHANGED ops
    /\ UNCHANGED invVars
    /\ InviteFrame

\* AdminInvite.tsx 27-38, 135: submit of the rendered form, up to the await
\* of functions.invoke
InviteSubmit ==
    /\ route = "invite"
    /\ ShowsInviteForm(profile)
    /\ ~ui.busy
    /\ IF ~MaySubmitInvite(profile)
       THEN UNCHANGED <<ui, ops>>
       ELSE /\ Issue([kind |-> "invoke",
                      body |-> [json |-> TRUE, email |-> ui.fields.email,
                                fullName |-> ui.fields.fullName,
                                role |-> ui.fields.role]])
            /\ ui' = [ui EXCEPT !.busy = TRUE, !.msg = Null, !.error = Null]
    /\ UNCHANGED invVars
    /\ InviteFrame

\* the request of a submission reaches the function
InviteArrives(s) ==
    /\ route = "invite"
    /\ ops[s].kind = "invoke"
    /\ Start(1, [method |-> "POST",
                 header |-> BearerPrefix \o TokenOf(authSess.user),
                 body |-> ops[s].body])

InviteInvokeReturnSwallowing(s) ==
    /\ route = "invite"
    /\ ops[s].kind = "invoke"
    /\ inv[1].pc = "done"
    /\ ui' = IF inv[1].resp.status # 200
             THEN [ui EXCEPT !.busy = FALSE]
             ELSE [ui EXCEPT !.busy = FALSE, !.msg = UserCreatedText,
                             !.fields = EmptyForm]
    /\ ops' = [ops EXCEPT ![s] = NoOp]
    /\ inv' = [inv EXCEPT ![1] = Idle]
    /\ UNCHANGED <<env, profiles, authUsers>>
    /\ InviteFrame

\* AdminInvite.tsx 36-52: functions.invoke answers with the function's
\* response
InviteInvokeReturn(s) ==
    /\ route = "invite"
    /\ ops[s].kind = "invoke"
    /\ inv[1].pc = "done"
    /\ ui' = IF inv[1].resp.status # 200
             THEN [ui EXCEPT !.busy = FALSE, !.error = OrElse(Non2xx, "Invite failed")]
             ELSE [ui EXCEPT !.busy = FALSE, !.msg = UserCreatedText,
                             !.fields = EmptyForm]
    /\ ops' = [ops EXCEPT ![s] = NoOp]
    /\ inv' = [inv EXCEPT ![1] = Idle]
    /\ UNCHANGED <<env, profiles, authUsers>>
    /\ InviteFrame

InitInvite ==
    /\ ScreenStore
    /\ \E p \in ScreenProfiles : Resolved(p) /\ ui = InviteMounted(p)
    /\ route = "invite"
    /\ transactions = {}
    /\ bills = {}
    /\ savings = [goals |-> {}, contributions |-> {}]
    /\ ops = NoOps
    /\ nextId = 1

NextInvite ==
    \/ \E f \in FilledForms : InviteEdit(f)
    \/ InviteSubmit
    \/ \E s \in OpSlots : InviteArrives(s)
    \/ \E a \in GetUserAnswers(inv[1].jwt) : GetUserReturn(1, a)
    \/ \E a \in TableAnswers : ProfileReturn(1, a)
    \/ \E a \in InviteAnswers(authUsers, inv[1].req.body.email) : InviteReturn(1, a)
    \/ \E a \in TableAnswers : UpsertReturn(1, a)
    \/ \E s \in OpSlots : InviteInvokeReturn(s)

SpecInvite == InitInvite /\ [][NextInvite]_vars

----------------------------------------------------------------------------
(* The screens of the client, one of them mounted *)

\* main.tsx: the route that is mounted, with the profile useSession() hands
\* to it
InitScreens ==
    \/ InitTransactions
    \/ InitBills
    \/ InitSavings
    \/ InitInvite

NextScreens ==
    \/ NextTransactions
    \/ NextBills
    \/ NextSavings
    \/ NextInvite

SpecScreens == InitScreens /\ [][NextScreens]_vars

----------------------------------------------------------------------------
(* What the properties below read off an invocation *)

Configured == Truthy(env.url) /\ Truthy(env.key)

\* the header is "Bearer " followed by at least one character
WellFormedBearer(h) ==
    /\ h # NoHeader
    /\ Len(h) > Len(BearerPrefix)
    /\ \A k \in 1 .. Len(BearerPrefix) : h[k] = BearerPrefix[k]

Called(r, name) == \E k \in 1 .. Len(r.calls) : r.calls[k] = name

\* the answer the invocation got to its call of that name
AnswerTo(r, name) ==
    LET k == CHOOSE k \in 1 .. Len(r.got) : r.calls[k] = name IN r.got[k]

Answered(r, name) == \E k \in 1 .. Len(r.got) : r.calls[k] = name

\* the row of a principal in the table, NullRow when it has none
ProfileOf(id) == MaybeSingle(SelectById(profiles, id))

\* the invocation is past the admin gate of index.ts 39
PastGate(r) == Answered(r, "profiles.select")

----------------------------------------------------------------------------

\* C1: a POST invocation whose caller has no Profile row, or a row with role
\* viewer or editor, is answered 403 'Forbidden (admin only)' whatever its
\* body says, and has made no invite call and no upsert: its only calls are
\* the identity exchange and the read of the caller's row.
C1_NonAdminForbidden ==
    \A i \in Invs :
        (PastGate(inv[i]) /\ inv[i].stored # "admin")
        => /\ inv[i].pc = "done"
           /\ inv[i].resp.status = 403
           /\ inv[i].resp.error = "Forbidden (admin only)"
           /\ inv[i].resp.ok = FALSE
           /\ inv[i].calls = <<"auth.getUser", "profiles.select">>
           /\ inv[i].row = NoRow

\* an editor whose body claims role admin was answered 403
C1_Witness ==
    \E i \in Invs :
        /\ inv[i].pc = "done"
        /\ inv[i].stored = "editor"
        /\ inv[i].req.body.role = "admin"
        /\ inv[i].resp.status = 403

\* C2: a POST invocation (configuration complete) whose Authorization header
\* is missing or is not 'Bearer <token>' is answered 401 at once, with no
\* external call made: no identity exchange, no read, no invite, no upsert.
C2_MalformedBearerUnauthenticated ==
    \A i \in Invs :
        (/\ inv[i].pc # "idle"
         /\ inv[i].req.method = "POST"
         /\ Configured
         /\ ~WellFormedBearer(inv[i].req.header))
        => /\ inv[i].pc = "done"
           /\ inv[i].resp.status = 401
           /\ inv[i].resp.error = "Unauthorized"
           /\ inv[i].calls = <<>>
           /\ inv[i].got = <<>>

\* the header "Bearer " with an empty token was answered 401
C2_Witness ==
    \E i \in Invs :
        /\ inv[i].pc = "done"
        /\ inv[i].req.method = "POST"
        /\ inv[i].req.header = BearerPrefix
        /\ inv[i].resp.status = 401

\* C3: the provider never shows a Profile that is not the current session's:
\* with no session the Profile is null, and with a session the Profile shown
\* is null or the row of that session's principal, also while lookups of
\* earlier sessions are still answering.
C3_NoStaleProfile ==
    profile # NullRow => (session # NoSession /\ profile.id = session.user)

\* C3, its first half: once the session is cleared the Profile stays null for
\* as long as there is no session.
C3_ClearedStaysNull ==
    [][(session = NoSession /\ profile = NullRow /\ session' = NoSession)
          => profile' = NullRow]_vars

\* the outcome of the credential check and the admin gate
AuthOutcome(r) ==
    IF r.resp.status \in {401, 403} THEN r.resp.status
    ELSE IF PastGate(r) THEN 200
    ELSE 400

\* what the credential, the identity answer and the stored row decide
AuthDecision(header, got, stored) ==
    IF ~WellFormedBearer(header) THEN 401
    ELSE IF got[1].kind = "throw" THEN 400
    ELSE IF got[1].kind # "ok" THEN 401
    ELSE IF Len(got) >= 2 /\ got[2].kind = "ok" /\ stored = "admin" THEN 200
    ELSE 403

\* the invocation has taken its authorization decision
Decided(r) ==
    /\ r.req.method = "POST"
    /\ Configured
    /\ r.pc \notin {"idle", "getUser", "profile"}

\* C4: the authorization outcome of a POST invocation (401, 403, authorized)
\* is a function of the bearer credential, of the identity collaborator's
\* answer to it and of the caller's row as stored; the request body, with
\* whatever role it claims, has no part in it.
C4_AuthIndependentOfBody ==
    \A i \in Invs :
        Decided(inv[i])
        => AuthOutcome(inv[i]) =
              AuthDecision(inv[i].req.header, inv[i].got, inv[i].stored)

\* an admin whose body names no role, and a viewer whose body claims admin
C4_Witness ==
    \E i \in Invs :
        /\ Decided(inv[i])
        /\ \/ inv[i].stored = "admin" /\ inv[i].req.body.role = Undefined
              /\ AuthOutcome(inv[i]) = 200
           \/ inv[i].stored = "viewer" /\ inv[i].req.body.role = "admin"
              /\ AuthOutcome(inv[i]) = 403

\* C5: every role the function hands to the upsert, and every role in the
\* table, is one of viewer, editor, admin.
C5_WrittenRoleValid ==
    /\ \A i \in Invs : inv[i].row # NoRow => inv[i].row.role \in Roles
    /\ \A r \in profiles : r.role \in Roles

\* C6: after a 200 answer with user_id u to a request for a valid role r, the
\* row of u in the table has role r.
C6_SuccessLeavesRequestedRole ==
    \A i \in Invs :
        (/\ inv[i].pc = "done"
         /\ inv[i].resp.status = 200
         /\ inv[i].resp.ok
         /\ Truthy(inv[i].resp.user_id)
         /\ inv[i].req.body.role \in Roles)
        => ProfileOf(inv[i].resp.user_id).role = inv[i].req.body.role

\* C7: after a 200 answer with user_id u to a request without a role field,
\* the row of u has role viewer and the requested display name.
C7_DefaultRoleViewer ==
    \A i \in Invs :
        (/\ inv[i].pc = "done"
         /\ inv[i].resp.status = 200
         /\ inv[i].resp.ok
         /\ Truthy(inv[i].resp.user_id)
         /\ inv[i].req.body.role = Undefined)
        => /\ ProfileOf(inv[i].resp.user_id).role = "viewer"
           /\ ProfileOf(inv[i].resp.user_id).full_name = inv[i].req.body.fullName

\* the body is a JSON object without a usable email or fullName
LacksField(body) ==
    /\ body.json
    /\ \/ body.email \in {Undefined, Null, ""}
       \/ body.fullName \in {Undefined, Null, ""}

\* C8 as stated: an admin's request whose body lacks email or fullName is
\* answered 400 'Missing fields' before any external call was made.
C8_MissingFieldsBeforeAnyCall ==
    \A i \in Invs :
        (/\ inv[i].pc = "done"
         /\ inv[i].prof.role = "admin"
         /\ LacksField(inv[i].req.body))
        => /\ inv[i].resp.status = 400
           /\ inv[i].resp.error = "Missing fields"
           /\ inv[i].calls = <<>>

\* C8 amended: an admin's request whose JSON body lacks email or fullName, or
\* has either empty, is answered 400 'Missing fields' after the identity
\* exchange and the read of the caller's row and before the invite call and
\* the upsert: no invite is sent and no row is written.
C8_MissingFieldsBeforeInvite ==
    \A i \in Invs :
        (/\ PastGate(inv[i])
         /\ inv[i].prof.role = "admin"
         /\ LacksField(inv[i].req.body))
        => /\ inv[i].pc = "done"
           /\ inv[i].resp.status = 400
           /\ inv[i].resp.error = "Missing fields"
           /\ inv[i].calls = <<"auth.getUser", "profiles.select">>
           /\ inv[i].row = NoRow

\* an admin's request with an empty email and a full name was answered 400
C8_Witness ==
    \E i \in Invs :
        /\ inv[i].pc = "done"
        /\ inv[i].prof.role = "admin"
        /\ inv[i].req.body.json
        /\ inv[i].req.body.email = ""
        /\ inv[i].req.body.fullName = "Juan Dela Cruz"
        /\ inv[i].resp.status = 400

\* C9: when the answer to a call is a failure, that call is the last one of
\* the invocation and the invocation does not answer 200.
C9_FailureAbortsAndIsReported ==
    \A i \in Invs :
        \A k \in 1 .. Len(inv[i].got) :
            inv[i].got[k].kind # "ok"
            => /\ Len(inv[i].calls) = k
               /\ inv[i].pc = "done"
               /\ inv[i].resp.status # 200

\* C10: when inviteUserByEmail answers with an error, the invocation answers
\* 400 with that error's message as it is, and calls no upsert.
C10_InviteFailedMessage ==
    \A i \in Invs :
        (/\ Answered(inv[i], "auth.admin.inviteUserByEmail")
         /\ AnswerTo(inv[i], "auth.admin.inviteUserByEmail").kind = "error")
        => /\ inv[i].pc = "done"
           /\ inv[i].resp.status = 400
           /\ inv[i].resp.error =
                 AnswerTo(inv[i], "auth.admin.inviteUserByEmail").message
           /\ inv[i].resp.ok = FALSE
           /\ ~Called(inv[i], "profiles.upsert")
           /\ inv[i].row = NoRow

\* the invite of a confirmed email was refused and answered 400
C10_Witness ==
    \E i \in Invs :
        /\ inv[i].pc = "done"
        /\ inv[i].req.body.email = "staff@shop.com"
        /\ inv[i].resp.status = 400
        /\ inv[i].resp.error = AlreadyRegistered

\* C11: when getUser answers a well-formed bearer token with an error, that
\* is with no user and so no principal identifier, the invocation answers
\* 401 'Invalid token'; and whenever the exchange does not yield a principal,
\* the identity exchange is the invocation's only call: no Profile read, no
\* invite, no upsert.
C11_InvalidToken ==
    \A i \in Invs :
        (Len(inv[i].got) >= 1 /\ inv[i].got[1].kind # "ok")
        => /\ inv[i].pc = "done"
           /\ inv[i].calls = <<"auth.getUser">>
           /\ inv[i].callerId = Undefined
           /\ inv[i].row = NoRow
           /\ inv[i].got[1].kind = "error"
              => /\ inv[i].resp.status = 401
                 /\ inv[i].resp.error = "Invalid token"

\* the token of no principal was exchanged and answered 401 'Invalid token'
C11_Witness ==
    \E i \in Invs :
        /\ inv[i].pc = "done"
        /\ inv[i].jwt = TokBad
        /\ inv[i].got = <<[kind |-> "error", message |-> "invalid JWT"]>>
        /\ inv[i].resp.status = 401
        /\ inv[i].resp.error = "Invalid token"

\* the identity exchange answered with an error (no user)
ExchangeFailed(r) == Len(r.got) >= 1 /\ r.got[1].kind = "error"

\* the identity exchange yielded the caller
ExchangeOk(r) == Len(r.got) >= 1 /\ r.got[1].kind = "ok"

\* C12: a POST invocation with complete configuration is answered 401 exactly
\* when the credential is absent, malformed or fails the exchange, and 403
\* exactly when the exchange succeeded and the caller's stored row is not an
\* admin's.
C12_StatusMatchesFailureKind ==
    \A i \in Invs :
        (inv[i].pc = "done" /\ inv[i].req.method = "POST" /\ Configured)
        => /\ inv[i].resp.status = 401
              <=> (~WellFormedBearer(inv[i].req.header) \/ ExchangeFailed(inv[i]))
           /\ inv[i].resp.status = 403
              <=> (ExchangeOk(inv[i]) /\ inv[i].stored # "admin")

\* C13: every 200 {ok: true} answer carries a user_id, and the invocation
\* has called the upsert with the row of that id, the requested display name
\* and the requested role (viewer when none was requested).
C13_SuccessCarriesUpsertedId ==
    \A i \in Invs :
        (inv[i].pc = "done" /\ inv[i].resp.status = 200 /\ inv[i].resp.ok)
        => /\ Truthy(inv[i].resp.user_id)
           /\ Called(inv[i], "profiles.upsert")
           /\ inv[i].row.id = inv[i].resp.user_id
           /\ inv[i].row.full_name = inv[i].req.body.fullName
           /\ inv[i].row.role = IF inv[i].req.body.role \in {Undefined, Null}
                                THEN "viewer" ELSE inv[i].req.body.role

\* the external steps of an invocation, in the order of the handler
StepOrder ==
    <<"auth.getUser", "profiles.select", "auth.admin.inviteUserByEmail",
      "profiles.upsert">>

\* the gate a step's answer must pass for the next step to start
PassedGate(r, k) ==
    /\ r.got[k].kind = "ok"
    /\ k = 1 => r.callerId \in {AdminId, StaffId}
    /\ k = 2 => r.prof.role = "admin" /\ r.prof.id = r.callerId
    /\ k = 3 => Truthy(r.newId) /\ r.row.id = r.newId

\* the steps of an invocation are a prefix of StepOrder, one pending at most
InOrder(r) ==
    /\ Len(r.calls) <= Len(StepOrder)
    /\ r.calls = SubSeq(StepOrder, 1, Len(r.calls))
    /\ Len(r.got) \in {Len(r.calls) - 1, Len(r.calls)}
    /\ Len(r.got) < Len(r.calls) <=> r.pc \in {"getUser", "profile", "invite", "upsert"}
    /\ \A k \in 1 .. Len(r.calls) - 1 : PassedGate(r, k)

\* C14: within an invocation the external steps are a prefix of identity
\* exchange, caller-Profile read, invite call, target-Profile upsert, each
\* at most once, each started only after the previous one was answered and
\* passed its gate; and a step of an invocation changes nothing in the table
\* but the row of the id handed to its upsert.
C14_StepsOnceInOrder ==
    /\ [](\A i \in Invs : InOrder(inv[i]))
    /\ [][/\ \A i \in Invs : Len(inv'[i].calls) <= Len(inv[i].calls) + 1
          /\ profiles' # profiles
             => \E i \in Invs :
                   /\ inv[i].pc = "upsert" /\ inv'[i].pc = "done"
                   /\ \A r \in (profiles \ profiles') \cup (profiles' \ profiles) :
                         r.id = inv[i].row.id]_vars

\* an invocation that went through all four steps
C14_Witness ==
    \E i \in Invs : inv[i].pc = "done" /\ inv[i].calls = StepOrder

\* C15: after a successful invocation for a target, the target's row carries
\* the display name and the role of that invocation, the most recent one,
\* also when its invite found the target already invited.
C15_LatestRequestWins ==
    \A i \in Invs :
        (/\ inv[i].pc = "done"
         /\ inv[i].resp.status = 200
         /\ inv[i].resp.ok
         /\ \E u \in authUsers : u.email = inv[i].req.body.email /\ ~u.confirmed)
        => \E u \in authUsers :
              /\ u.email = inv[i].req.body.email
              /\ ProfileOf(u.id).full_name = inv[i].req.body.fullName
              /\ ProfileOf(u.id).role =
                    IF inv[i].req.body.role \in {Undefined, Null}
                    THEN "viewer" ELSE inv[i].req.body.role

\* the invocation's upsert was answered without error
UpsertDone(r) ==
    Answered(r, "profiles.upsert") /\ AnswerTo(r, "profiles.upsert").kind = "ok"

\* C16: under any interleaving of invocations for the same target email the
\* table holds at most one row per principal id; the target's row is the row
\* handed to the upsert of one of these invocations; and each upsert that
\* succeeds leaves its own row as the single row of its id (last writer wins),
\* all other rows untouched.
C16_ConcurrentInvitesOneRow ==
    /\ [](\A r1, r2 \in profiles : r1.id = r2.id => r1 = r2)
    /\ [](\A r \in profiles :
             r.id = NewId => \E i \in Invs : UpsertDone(inv[i]) /\ inv[i].row = r)
    /\ [][profiles' # profiles
          => \E i \in Invs :
                /\ inv[i].pc = "upsert" /\ inv'[i].pc = "done"
                /\ MaybeSingle(SelectById(profiles', inv[i].row.id)) = inv[i].row
                /\ \A r \in (profiles \ profiles') \cup (profiles' \ profiles) :
                      r.id = inv[i].row.id]_vars

\* one invocation wrote the target's row while the other, asking for another
\* role, has its upsert in flight
C16_Witness ==
    \E i, j \in Invs :
        /\ inv[i].pc = "upsert"
        /\ inv[j].pc = "done" /\ UpsertDone(inv[j])
        /\ inv[i].row.id = inv[j].row.id
        /\ inv[i].row.role # inv[j].row.role
        /\ ProfileOf(NewId) = inv[j].row

\* the spec's capabilities of a role
CanWrite(r) == r \in {"admin", "editor"}

CanAdminister(r) == r = "admin"

\* C17: whenever the provider holds no Profile of the current session's
\* principal (its lookup is pending, found no row, or failed), every screen
\* derives the most restrictive capabilities: no write, no administration.
C17_FailClosed ==
    (session # NoSession /\ profile.id # session.user)
    => /\ ~CanWriteTransactions(profile)
       /\ ~CanWriteBills(profile)
       /\ ~CanWriteSavings(profile)
       /\ ~IsAdminRoot(profile)
       /\ ~IsAdminAuditLog(profile)
       /\ ~MaySubmitInvite(profile)
       /\ ~ShowsInviteForm(profile)

\* the profile rows a screen may be handed
ProfileRows ==
    {NullRow} \cup [id : {AdminId, StaffId, NewId},
                    full_name : {Null, "Owner", "Staff", "Juan Dela Cruz"},
                    role : Roles \cup {Null}]

\* the capabilities every screen derives from p are those of role r
DerivesFrom(p, r) ==
    /\ CanWriteTransactions(p) = CanWrite(r)
    /\ CanWriteBills(p) = CanWrite(r)
    /\ CanWriteSavings(p) = CanWrite(r)
    /\ IsAdminRoot(p) = CanAdminister(r)
    /\ IsAdminAuditLog(p) = CanAdminister(r)
    /\ MaySubmitInvite(p) = CanAdminister(r)
    /\ ShowsInviteForm(p) = CanAdminister(r)

\* C19: for every role admin, editor, viewer or null, every screen derives
\* canWrite exactly for admin and editor and canAdminister exactly for admin,
\* from the role alone (whatever the row's id and name, and for the absent
\* profile as for the null role), for the profile the provider holds as for
\* any other.
C19_CapabilitiesOfRole ==
    /\ \A p \in ProfileRows : DerivesFrom(p, p.role)
    /\ DerivesFrom(profile, profile.role)
    /\ profile \in ProfileRows

\* the provider holds an editor's profile: the screens allow writes, no
\* administration
C19_Witness ==
    /\ profile.role = "editor"
    /\ profile.id = session.user
    /\ CanWriteSavings(profile)
    /\ CanWriteTransactions(profile)
    /\ ~IsAdminRoot(profile)

\* C18: a lookup is issued only for the session the provider holds, keyed by
\* its principal, and only when no lookup was issued yet for that session,
\* where a session lasts from its sign-in to its end whatever objects the
\* client hands out for it on the initial-session notification or a token
\* refresh; and an answered lookup, empty or failed, is not issued again.
C18_OneLookupPerSession ==
    [][/\ \A p \in pending' \ pending :
             /\ p = session /\ p.user # Null
             /\ effectDep.est # p.est
       /\ effectDep' # effectDep
          => Cardinality(pending' \ pending) = IF session = NoSession THEN 0 ELSE 1
       /\ effectDep' = effectDep => pending' \subseteq pending]_vars

\* C20: the profiles table changes only in the step of the invite function
\* in which its upsert is answered, and then only in the row of the id handed
\* to the upsert; no step of the client (session change, profile load, form
\* submission) changes the table; and no step removes the row of an id.
C20_ProfilesWrittenOnlyByUpsert ==
    [][/\ profiles' # profiles
          => /\ sessVars' = sessVars
             /\ \E i \in Invs :
                   /\ inv[i].pc = "upsert" /\ inv'[i].pc = "done"
                   /\ profiles' \ profiles = {inv[i].row}
                   /\ \A r \in profiles \ profiles' : r.id = inv[i].row.id
       /\ \A r \in profiles : \E q \in profiles' : q.id = r.id]_vars

\* the function has written the target's row while the client, its lookup
\* answered, holds the admin's profile
C20_Witness ==
    /\ ProfileOf(NewId) # NullRow
    /\ profile.id = AdminId
    /\ session.user = AdminId
    /\ pending = {}
    /\ \E i \in Invs : inv[i].pc = "done" /\ UpsertDone(inv[i])

\* the invocation never got to the handler's first external call
Rejected(r) == r.req.method # "POST" \/ ~Configured

\* C21: an invocation that is not a POST, or a POST without the base URL or
\* the elevated credential, is answered in its first step with no external
\* call and with the tables untouched, whatever its header and body: OPTIONS
\* with 200 "ok", any other method but POST with 405, a POST without
\* configuration with 500; each answer carries the permissive CORS headers.
C21_RejectedBeforeAnyCall ==
    /\ [](\A i \in Invs :
             (inv[i].pc # "idle" /\ Rejected(inv[i]))
             => /\ inv[i].pc = "done"
                /\ inv[i].calls = <<>> /\ inv[i].got = <<>>
                /\ inv[i].row = NoRow
                /\ inv[i].resp.headers = CorsHeaders
                /\ inv[i].resp.headers.allowOrigin = "*"
                /\ inv[i].resp.status =
                      IF inv[i].req.method = "OPTIONS" THEN 200
                      ELSE IF inv[i].req.method # "POST" THEN 405 ELSE 500
                /\ inv[i].req.method = "OPTIONS"
                   => inv[i].resp.text = "ok" /\ inv[i].resp.error = Undefined
                /\ inv[i].req.method \notin {"OPTIONS", "POST"}
                   => inv[i].resp.error = "Method not allowed"
                /\ inv[i].req.method = "POST"
                   => inv[i].resp.error = "Server misconfigured")
    /\ [][\A i \in Invs :
             (inv[i].pc = "idle" /\ inv'[i].pc # "idle" /\ Rejected(inv'[i]))
             => profiles' = profiles /\ authUsers' = authUsers]_vars

\* a POST with no header at all met a deployment without its configuration
C21_Witness ==
    \E i \in Invs :
        /\ inv[i].pc = "done"
        /\ inv[i].req.method = "POST"
        /\ inv[i].req.header = NoHeader
        /\ ~Configured
        /\ inv[i].resp.status = 500

Statuses == {200, 400, 401, 403, 405, 500}

\* an external call of the invocation threw, or its body was no JSON
Threw(r) ==
    \/ \E k \in 1 .. Len(r.got) : r.got[k].kind = "throw"
    \/ PastGate(r) /\ r.prof.role = "admin" /\ ~r.req.body.json

\* C22: provided each external call returns or throws, every started
\* invocation gets to its response; it has no response before and exactly
\* one after, with status 200, 400, 401, 403, 405 or 500, which no later
\* step changes; and an invocation one of whose steps threw is answered 400.
C22_AlwaysAnswered ==
    /\ \A i \in Sequential : (inv[i].pc # "idle") ~> (inv[i].pc = "done")
    /\ [](\A i \in Invs :
             /\ inv[i].pc = "done" <=> inv[i].resp # NoResp
             /\ inv[i].pc = "done" => inv[i].resp.status \in Statuses
             /\ inv[i].pc \in {"idle", "getUser", "profile", "invite", "upsert", "done"}
             /\ Threw(inv[i]) => inv[i].pc = "done" /\ inv[i].resp.status = 400)
    /\ [][\A i \in Invs :
             inv[i].pc = "done" => inv'[i] = inv[i] \/ inv'[i] = Idle]_vars

\* the invite call threw after the caller had passed the admin gate, and the
\* invocation was answered 400
C22_Witness ==
    \E i \in Invs :
        /\ inv[i].pc = "done"
        /\ Len(inv[i].got) = 3
        /\ inv[i].got[3].kind = "throw"
        /\ inv[i].resp.status = 400

\* the error strings the handler itself writes
FixedErrors ==
    {"Method not allowed", "Server misconfigured", "Unauthorized", "Invalid token",
     "Forbidden (admin only)", "Missing fields", "Invite failed"}

\* the messages of the errors the invocation got or caught
CaughtMessages(r) ==
    {r.got[k].message : k \in 1 .. Len(r.got)} \cup {NotJson}

\* the strings a response hands to the caller
Discloses(resp) ==
    {resp.text, resp.error, resp.user_id, resp.headers.contentType,
     resp.headers.allowOrigin, resp.headers.allowHeaders, resp.headers.allowMethods}

\* C23: no response, success or error, hands out the elevated credential:
\* the body is "ok", or an error that is one of the handler's fixed strings
\* or the message of an error the invocation got, or the ok flag with the
\* identifier the invite returned.
C23_CredentialNeverInResponse ==
    \A i \in Invs :
        inv[i].pc = "done"
        => /\ Truthy(env.key) => env.key \notin Discloses(inv[i].resp)
           /\ inv[i].resp.error \in
                 {Undefined} \cup FixedErrors \cup CaughtMessages(inv[i])
           /\ inv[i].resp.text \in {"", "ok"}
           /\ inv[i].resp.user_id \in {Undefined, inv[i].newId}
           /\ inv[i].resp.ok => inv[i].resp.error = Undefined /\ inv[i].resp.text = ""

\* a deployment that holds the credential but no base URL answered a POST
C23_Witness ==
    \E i \in Invs :
        /\ inv[i].pc = "done"
        /\ Truthy(env.key)
        /\ inv[i].resp.status = 500
        /\ inv[i].resp.error = "Server misconfigured"

\* the rows of that id in a list
RowsOf(list, id) == {r \in list : r.id = id}

\* C28: when the store rejects an inline amount update, the step that takes
\* the answer leaves the list as if the edit had not been made: the edited
\* row shows the amount it had before the edit, and every other row is
\* displayed, or not, exactly as just before the answer.
C28_RollbackKeepsOtherRows ==
    [][\A s \in OpSlots :
          TxUpdateReturn(s, "error")
          => \A id \in 1 .. MaxId :
                IF id = ops[s].id
                THEN RowsOf(ui'.items, id) \subseteq RowsOf(ops[s].prev, id)
                ELSE RowsOf(ui'.items, id) = RowsOf(ui.items, id)]_vars

\* the expense transactions the store holds that marking bill b paid created
ExpensesOf(b) == {t \in transactions : t.type = "expense" /\ t.bill = b}

\* C27: whatever mark-paid and mark-unpaid operations were made on a bill,
\* also with a second click while the first request is pending or a retry
\* after the update of the bill failed, the store holds at most one expense
\* transaction created for that bill.
C27_OneExpensePerBill ==
    \A b \in BillIds : Cardinality(ExpensesOf(b)) <= 1

\* no request of the screen is in flight
Settled == \A s \in OpSlots : ops[s] = NoOp

\* C30: when all mark-paid, mark-unpaid and delete operations have completed,
\* every bill shown as paid has a linked transaction and a paid_at, every
\* bill shown as unpaid has neither; and the step that completes marking a
\* bill unpaid, or deleting it, leaves no transaction in the store with the
\* id the bill was linked to.
C30_BillsAndExpensesConsistent ==
    /\ [](Settled /\ route = "bills"
          => \A b \in ui.items :
                IF b.paid THEN b.transaction_id # 0 /\ b.paid_at # Null
                ELSE b.transaction_id = 0 /\ b.paid_at = Null)
    /\ [][\A s \in OpSlots :
             (BillsMarkUnpaidReturn(s, "ok") \/ BillsDelReturn(s, "ok"))
             => \A t \in transactions' :
                   ops[s].bill.transaction_id # 0 => t.id # ops[s].bill.transaction_id]_vars

\* C29: once the date range has been changed and no monthly_profit request is
\* pending, the rows and the totals displayed are those of the range now
\* selected, whatever the order in which the responses arrived (read for the
\* runs where no request was answered with an error after the last change).
C29_RowsOfSelectedRange ==
    route = "reports" /\ ops = NoOps /\ ui.error = Null
    => /\ ui.rows = MonthlyProfit(ui.fromDate, ui.toDate)
       /\ Totals(ui.rows) = Totals(MonthlyProfit(ui.fromDate, ui.toDate))

\* the lookup for the signed-in principal has answered, none is pending or
\* about to be issued, and the principal has no row in profiles
LookupAnsweredNotFound ==
    /\ session # NoSession
    /\ ~loading
    /\ effectDep = session
    /\ pending = {}
    /\ SelectById(profiles, session.user) = {}

\* C25: once the profile lookup of a signed-in principal has answered
\* not-found, the invite screen shows an unauthorized state and not the
\* loading state it shows while the lookup is pending; the principal is not
\* left on the loading state.
C25_NotFoundIsNotLoading ==
    LookupAnsweredNotFound => AdminInviteView(profile) # "Loading"

\* C26: every submission of the invite form that reached the function ends
\* with busy back to false and with exactly one of the success message and
\* the inline error set: a failed request leaves an error message and the
\* fields as they are, a successful one resets the fields; while the request
\* is pending busy is set and neither message is shown.
C26_SubmissionEndsWithOneMessage ==
    /\ [](route = "invite" /\ ui.busy
          => /\ \E s \in OpSlots : ops[s].kind = "invoke"
             /\ ui.msg = Null /\ ui.error = Null)
    /\ [][\A s \in OpSlots :
             InviteInvokeReturn(s)
             => /\ ui'.busy = FALSE
                /\ (ui'.msg # Null) # (ui'.error # Null)
                /\ IF inv[1].resp.status = 200
                   THEN ui'.msg # Null /\ ui'.fields = EmptyForm
                   ELSE ui'.error \notin {Null, ""} /\ ui'.fields = ui.fields]_vars

\* a submission that the function refused has ended: the error is shown, the
\* fields are still filled in
C26_Witness ==
    /\ route = "invite"
    /\ ~ui.busy
    /\ ops = NoOps
    /\ ui.error = Non2xx
    /\ ui.msg = Null
    /\ ui.fields \in FilledForms

\* the requests that only read
ReadKinds == {"none", "select", "sv_select", "rpc"}

\* the profile handed to the screen is none, or has the role viewer
ReadOnly(p) == p = NullRow \/ ~CanWrite(p.role)

\* C24: while the role is viewer or no profile is resolved, no handler of the
\* Transactions, Bills or Savings screen issues a create, update or delete
\* request and the stored transactions, bills and savings stay as they are;
\* no invite request is sent unless the role is admin.
C24_NoWriteWithoutRole ==
    /\ [][ReadOnly(profile)
          => /\ \A s \in OpSlots : ops'[s].kind \in ReadKinds
             /\ transactions' = transactions
             /\ bills' = bills
             /\ savings' = savings]_vars
    /\ [][profile = NullRow \/ ~CanAdminister(profile.role)
          => /\ \A s \in OpSlots : ops'[s].kind # "invoke"
             /\ inv' = inv]_vars

\* a viewer has pressed Add on the Transactions screen
C24_Witness ==
    /\ route = "transactions"
    /\ profile # NullRow
    /\ profile.role = "viewer"
    /\ ui.error = "You do not have permission to add transactions."
    /\ \A s \in OpSlots : ops[s].kind \in ReadKinds

====
